---- MODULE Spec2Model ----
(***************************************************************************)
(* A model of the radar back end: the scan cache (radar_cache.py), the     *)
(* per-station fetch and the multi-station grid merge (radar_viz.py) and   *)
(* the request boundary (main.py).                                         *)
(*                                                                         *)
(* Three specifications share the module:                                  *)
(*   SpecMerge  the merge loop of merge_radar_data on per-station grids;   *)
(*   Spec       one request after another through generate_radar, with the *)
(*              upstream publishing datasets while a request runs;         *)
(*   SpecCache  two threads calling the cache without locking.             *)
(***************************************************************************)
EXTENDS Integers, Sequences, FiniteSets, TLC

(***************************************************************************)
(* Bounds of the model.                                                    *)
(***************************************************************************)
\* cells of the modelled grid (grid_size = 1000 in the source)
GridSize == 3
\* longest station list handed to the merge loop
MaxStations == 3

Cells == 1..GridSize

\* Reflectivity values (dBZ) the per-station grids of SpecMerge are drawn from.
DbzVals == {10, 30}

(***************************************************************************)
(* Masked arrays (numpy.ma).  A masked array over the cells is a function  *)
(* from Cells to a cell [mask, data]: mask TRUE means no data.  The data   *)
(* under a mask is never read by the program and is kept at 0.             *)
(***************************************************************************)
NoData == [mask |-> TRUE, data |-> 0]
Data(v) == [mask |-> FALSE, data |-> v]

masked_all == [c \in Cells |-> NoData]

Mask(a) == [c \in Cells |-> a[c].mask]

\* merged_grid.mask.all()
MaskAny(mask) == \E c \in Cells : mask[c]
MaskAll(mask) == \A c \in Cells : mask[c]

\* np.ma.where(cond, x, y): x where cond, y elsewhere, each with its mask.
MaWhere(cond, x, y) == [c \in Cells |-> IF cond[c] THEN x[c] ELSE y[c]]

Max2(u, v) == IF u >= v THEN u ELSE v

\* np.maximum on masked arrays: masked where either operand is masked.
MaximumTakesNew(x, y) ==
    [c \in Cells |-> IF x[c].mask \/ y[c].mask THEN NoData ELSE y[c]]
Maximum(x, y) ==
    [c \in Cells |-> IF x[c].mask \/ y[c].mask THEN NoData
                     ELSE Data(Max2(x[c].data, y[c].data))]

\* The update of merged_grid by one station's grid_z.
UpdateMergedGrid(merged, grid_z) ==
    IF MaskAll(Mask(merged))
    THEN grid_z
    ELSE MaWhere([c \in Cells |-> Mask(merged)[c] /\ ~Mask(grid_z)[c]],
                 grid_z,
                 MaWhere([c \in Cells |-> ~Mask(merged)[c] /\ ~Mask(grid_z)[c]],
                         Maximum(merged, grid_z),
                         merged))

(***************************************************************************)
(* One pass of the loop body of merge_radar_data over a station input.     *)
(* An input is what the station's scan leads to:                           *)
(*   "none"     radar_data is None                    -> continue          *)
(*   "novalid"  no unmasked point in the scan         -> continue          *)
(*   "raise"    the interpolation block raises        -> except: continue  *)
(*   "unguarded" the code before the try block raises -> leaves the loop   *)
(*   "grid"     grid_z, interpolated and range-masked -> merged in         *)
(***************************************************************************)
GridCells == {NoData} \cup {Data(v) : v \in DbzVals}
GridInputs == [kind : {"grid"}, grid_z : [Cells -> GridCells]]
SkipInputs == [kind : {"none", "novalid", "raise"}, grid_z : {masked_all}]
AbortInputs == [kind : {"unguarded"}, grid_z : {masked_all}]
StationInputs == GridInputs \cup SkipInputs \cup AbortInputs

LoopBodySkipResets(merged, inp) ==
    IF inp.kind = "grid" THEN UpdateMergedGrid(merged, inp.grid_z) ELSE inp.grid_z
LoopBody(merged, inp) ==
    IF inp.kind = "grid" THEN UpdateMergedGrid(merged, inp.grid_z) ELSE merged

\* The whole loop over a list of inputs, from the accumulator acc.
RECURSIVE MergeLoop(_, _)
MergeLoop(acc, inputs) ==
    IF inputs = << >> THEN acc
    ELSE MergeLoop(LoopBody(acc, Head(inputs)), Tail(inputs))

(***************************************************************************)
(* Geometry.  The model keeps the column of the grid through the center:   *)
(* every point lies on the center's meridian, where the haversine distance *)
(* of two latitudes is R * |dlat| (in radians), i.e. MetersPerDegree       *)
(* metres per degree, and the planar offset of a station is its signed     *)
(* distance along that meridian.                                           *)
(***************************************************************************)
\* 6371 km * pi / 180, in metres
MetersPerDegree == 111195
max_distance_km == 230
max_range == 230000
max_reliable_range == 80000

Abs(x) == IF x < 0 THEN 0 - x ELSE x

\* calculate_haversine_distance(lat1, lon, lat2, lon) * 1000, in metres
calculate_haversine_distance(lat1, lat2) == MetersPerDegree * Abs(lat2 - lat1)

\* y = np.linspace(-max_range, max_range, grid_size)
Y(c) == (0 - max_range) + ((c - 1) * 2 * max_range) \div (GridSize - 1)

\* The station directory (api.weather.gov/radar/stations), in listing order.
Directory ==
    << [id |-> 1, lat |-> 39], [id |-> 2, lat |-> 41], [id |-> 3, lat |-> 43] >>
StationIds == {Directory[i].id : i \in DOMAIN Directory}
\* The center latitudes a request may carry.
Centers == {39, 47}

\* The loop of get_radars_within_distance over data['features'];
\* max_distance is max_distance_km in metres.
get_radars_within_distance_strict(center_lat, max_distance) ==
    LET annotated == [i \in DOMAIN Directory |->
                        [id |-> Directory[i].id,
                         distance |-> calculate_haversine_distance(center_lat, Directory[i].lat),
                         lat |-> Directory[i].lat]]
    IN  SelectSeq(annotated, LAMBDA st : st.distance < max_distance)
get_radars_within_distance(center_lat, max_distance) ==
    LET annotated == [i \in DOMAIN Directory |->
                        [id |-> Directory[i].id,
                         distance |-> calculate_haversine_distance(center_lat, Directory[i].lat),
                         lat |-> Directory[i].lat]]
    IN  SelectSeq(annotated, LAMBDA st : st.distance <= max_distance)

(***************************************************************************)
(* Upstream datasets and scans.  The dataset of station s published at     *)
(* time t is named Level2_<s>_<Date>_<t>; its raw reflectivity bytes are a *)
(* fixed function of (s, t) with missing (0) and present cells, different  *)
(* for different datasets.  A scan sample lies on each grid node.          *)
(***************************************************************************)
Date == 20240220
\* newest dataset time the upstream publishes in the model
MaxTime == 2
\* requests served in one run
MaxRequests == 2

RawScan(s, t) == [c \in Cells |-> IF (c + t) % 2 = 0 THEN 0 ELSE 16 * s + t]

\* raw_to_masked_float with the defaults scale_factor = 1.0, add_offset = 0.0:
\* raw 0 is masked; the data under the mask stays 0.
raw_to_masked_float(data) ==
    [c \in Cells |-> IF data[c] = 0 THEN NoData ELSE Data(data[c] * 1 + 0)]

\* (ref, rng, az) of the dataset (s, t): range bins and azimuths are plain arrays.
ScanOf(s, t) ==
    [ref |-> raw_to_masked_float(RawScan(s, t)), rng |-> <<s>>, az |-> <<0>>]

(***************************************************************************)
(* The cache (RadarCache).  cache_index is the in-memory dict (its keys),  *)
(* index_file is cache_index.json: [kind, keys], with kind "json" (a dict  *)
(* with these keys), "badjson" (text json.load rejects), "missing" (no     *)
(* file) or "unreadable" (open or read fails: no permission, bytes that    *)
(* do not decode); blobs are the .npz files: a function from keys to << >> *)
(* (no file) or <<file>>.                                                  *)
(***************************************************************************)
get_cache_key(station_id, date_str, time_str) == <<station_id, date_str, time_str>>
Keys == {get_cache_key(s, Date, t) : s \in StationIds, t \in 1..MaxTime}

\* _load_cache_index: the keys of an index file that loads; {} when there is
\* no file and when json.load raises JSONDecodeError.
LoadCacheIndexRaises(ifile) == ifile.kind = "unreadable"
LoadCacheIndex(ifile) == IF ifile.kind = "json" THEN ifile.keys ELSE {}
\* _save_cache_index: what json.dump writes of the dict.
SaveCacheIndex(index) == [kind |-> "json", keys |-> index]
\* An index file cut short or garbled.
CorruptIndexFile == [kind |-> "badjson", keys |-> {}]
\* No index file.
MissingIndexFile == [kind |-> "missing", keys |-> {}]
\* An index file that open() or f.read() fails on with an exception other
\* than JSONDecodeError (PermissionError, UnicodeDecodeError).
UnreadableIndexFile == [kind |-> "unreadable", keys |-> {}]

\* np.savez(ref=ref, rng=rng, az=az): the arrays' data buffers; a mask is not written.
Savez(radar_data) ==
    [ref |-> [c \in Cells |-> radar_data.ref[c].data],
     rng |-> radar_data.rng, az |-> radar_data.az]
\* A file np.savez has begun and not finished.
PartialFile == [ref |-> << >>, rng |-> << >>, az |-> << >>]
\* np.load and data['ref'], data['rng'], data['az']: plain (unmasked) arrays.
NpLoad(file) ==
    [ref |-> [c \in Cells |-> Data(file.ref[c])], rng |-> file.rng, az |-> file.az]

\* get_cached_data as one call: the return value (<< >> is None) and the index after it.
get_cached_data_nosave(index, ifile, files, key) ==
    IF key \notin index
    THEN [ret |-> << >>, index |-> index, ifile |-> ifile]
    ELSE IF files[key] = << >>
         THEN [ret |-> << >>, index |-> index \ {key}, ifile |-> ifile]
         ELSE IF files[key][1] = PartialFile
              THEN [ret |-> << >>, index |-> index, ifile |-> ifile]
              ELSE [ret |-> <<NpLoad(files[key][1])>>, index |-> index, ifile |-> ifile]
get_cached_data(index, ifile, files, key) ==
    IF key \notin index
    THEN [ret |-> << >>, index |-> index, ifile |-> ifile]
    ELSE IF files[key] = << >>
         THEN [ret |-> << >>, index |-> index \ {key},
               ifile |-> SaveCacheIndex(index \ {key})]
         ELSE IF files[key][1] = PartialFile
              THEN [ret |-> << >>, index |-> index, ifile |-> ifile]
              ELSE [ret |-> <<NpLoad(files[key][1])>>, index |-> index, ifile |-> ifile]

\* cache_radar_data as one call: the files and the index after it.
cache_radar_data_nowhere(index, files, key, radar_data) ==
    [files |-> files, index |-> index, ifile |-> SaveCacheIndex(index)]
cache_radar_data(index, files, key, radar_data) ==
    [files |-> [files EXCEPT ![key] = <<Savez(radar_data)>>],
     index |-> index \cup {key},
     ifile |-> SaveCacheIndex(index \cup {key})]

(***************************************************************************)
(* merge_radar_data on the scans of a request.                             *)
(***************************************************************************)
\* What the unguarded part, the interpolation and the masking make of a scan.
\* fault: "ok", "raise" (inside the try block) or "unguarded" (before it).
StationInputNoRangeMask(radar_data, station, center_lat, fault) ==
    LET valid == {c \in Cells : ~radar_data.ref[c].mask}
        grid_z == [c \in Cells |-> IF c \in valid THEN radar_data.ref[c] ELSE NoData]
    IN  IF fault = "unguarded" THEN [kind |-> "unguarded", grid_z |-> masked_all]
        ELSE IF valid = {} THEN [kind |-> "novalid", grid_z |-> masked_all]
        ELSE IF fault = "raise" THEN [kind |-> "raise", grid_z |-> masked_all]
        ELSE [kind |-> "grid", grid_z |-> grid_z]
StationInput(radar_data, station, center_lat, fault) ==
    LET station_y == IF station.lat < center_lat
                     THEN 0 - calculate_haversine_distance(center_lat, station.lat)
                     ELSE calculate_haversine_distance(center_lat, station.lat)
        range_mask == [c \in Cells |-> Abs(Y(c) - station_y) > max_reliable_range]
        valid == {c \in Cells : ~radar_data.ref[c].mask}
        \* griddata on samples lying on the grid nodes, then masked_invalid
        grid_z == [c \in Cells |-> IF c \in valid THEN radar_data.ref[c] ELSE NoData]
    IN  IF fault = "unguarded" THEN [kind |-> "unguarded", grid_z |-> masked_all]
        ELSE IF valid = {} THEN [kind |-> "novalid", grid_z |-> masked_all]
        ELSE IF fault = "raise" THEN [kind |-> "raise", grid_z |-> masked_all]
        ELSE [kind |-> "grid",
              grid_z |-> [c \in Cells |-> IF range_mask[c] THEN NoData ELSE grid_z[c]]]

Clamp(lo, hi, x) == IF x < lo THEN lo ELSE IF x > hi THEN hi ELSE x

\* normalized_value = max(0, min(50, (dbz_value + 30) * (50/100))), with
\* dbz_value in tenths of a dBZ and the result in hundredths.
normalize_unclamped(dbz10) == (dbz10 + 300) * 5
normalize(dbz10) == Clamp(0, 5000, (dbz10 + 300) * 5)

\* The body of the grid-to-points loop for one cell: << >> when the cell is
\* passed over, <<value>> when a point is appended.  dbz10 is the cell's
\* value in tenths of a dBZ, point_distance its distance from the center.
PointOfCellAboveFloor(mask, dbz10, point_distance) ==
    IF mask \/ dbz10 <= 50 \/ point_distance > max_reliable_range THEN << >>
    ELSE <<normalize(dbz10)>>
PointOfCell(mask, dbz10, point_distance) ==
    IF mask THEN << >>
    ELSE IF dbz10 < 50 THEN << >>
    ELSE IF point_distance > max_reliable_range THEN << >>
    ELSE <<normalize(dbz10)>>

\* The grid-to-points loop on a grid in whole dBZ; a point's value is kept in tenths.
GridToPoints(merged) ==
    LET cell == [c \in Cells |-> c]
        point(c) == PointOfCell(merged[c].mask, merged[c].data * 10, Abs(Y(c)))
        keep(c) == point(c) # << >>
    IN  [i \in DOMAIN SelectSeq(cell, keep) |->
            LET c == SelectSeq(cell, keep)[i]
            IN  [cell |-> c, value10 |-> point(c)[1] \div 10]]

\* The early return: no scan, or scan and station counts differ.
EarlyReturn(radar_data_list, station_positions) ==
    radar_data_list = << >> \/ Len(radar_data_list) # Len(station_positions)

\* merge_radar_data past the early return: [raised, points, trace].  faults[i]
\* is the fault of station i, conv_raises whether the grid-to-points loop
\* raises; trace tells what each station's pass met and whether the
\* grid-to-points loop raised.
MergeStationsConvPropagates(radar_data_list, center_lat, station_positions, faults, conv_raises) ==
    LET inputs == [i \in DOMAIN radar_data_list |->
                      StationInput(radar_data_list[i], station_positions[i],
                                   center_lat, faults[i])]
        kinds == [i \in DOMAIN inputs |-> inputs[i].kind]
        unguarded == \E i \in DOMAIN inputs : inputs[i].kind = "unguarded"
    IN  [raised |-> unguarded \/ conv_raises,
         points |-> IF unguarded \/ conv_raises THEN << >>
                    ELSE GridToPoints(MergeLoop(masked_all, inputs)),
         trace |-> [kinds |-> kinds, conv |-> ~unguarded /\ conv_raises]]
MergeStations(radar_data_list, center_lat, station_positions, faults, conv_raises) ==
    LET inputs == [i \in DOMAIN radar_data_list |->
                      StationInput(radar_data_list[i], station_positions[i],
                                   center_lat, faults[i])]
        kinds == [i \in DOMAIN inputs |-> inputs[i].kind]
    IN  IF \E i \in DOMAIN inputs : inputs[i].kind = "unguarded"
        THEN [raised |-> TRUE, points |-> << >>,
              trace |-> [kinds |-> kinds, conv |-> FALSE]]
        ELSE IF conv_raises
             THEN [raised |-> FALSE, points |-> << >>,
                   trace |-> [kinds |-> kinds, conv |-> TRUE]]
             ELSE [raised |-> FALSE,
                   points |-> GridToPoints(MergeLoop(masked_all, inputs)),
                   trace |-> [kinds |-> kinds, conv |-> FALSE]]

NoTrace == [kinds |-> << >>, conv |-> FALSE]

merge_radar_data_strict(radar_data_list, center_lat, station_positions, faults, conv_raises) ==
    IF EarlyReturn(radar_data_list, station_positions)
    THEN [raised |-> TRUE, points |-> << >>, trace |-> NoTrace]
    ELSE MergeStations(radar_data_list, center_lat, station_positions, faults, conv_raises)
merge_radar_data(radar_data_list, center_lat, station_positions, faults, conv_raises) ==
    IF EarlyReturn(radar_data_list, station_positions)
    THEN [raised |-> FALSE, points |-> << >>, trace |-> NoTrace]
    ELSE MergeStations(radar_data_list, center_lat, station_positions, faults, conv_raises)

VARIABLES
    grid_list,      \* SpecMerge: the per-station inputs, in list order
    mi,             \* SpecMerge: index of the next input of the loop
    merged_grid,    \* SpecMerge: the accumulator
    merge_raised,   \* SpecMerge: an exception left the station loop
    latest,         \* upstream: time of each station's newest dataset, 0 = none
    cache_index,    \* RadarCache.cache_index (its keys)
    index_file,     \* the keys in cache_index.json
    blobs,          \* the .npz files
    pc,             \* where the request is
    req,            \* requests received so far
    center_lat,     \* coords.center_lat
    directory,      \* history: "ok" or "failed", how the directory call went
    stations,       \* generate_plot_from_center: stations
    station_timestamps, \* dict id -> <<text of the timestamp pass>>, << >> = no entry
    ti,             \* index of the timestamp pass
    si,             \* index of the fetch loop
    timestamp,      \* get_radar_data: time_str while the raw fetch is pending, 0 otherwise
    radar_data_list,
    station_info,
    response,       \* what generate_radar returned, << >> while running
    fetch_log,      \* history: the get_radar_data calls of this request
    merge_trace,    \* history: what merge_radar_data met in this request
    writes,         \* history: every (key, payload) given to cache_radar_data
    repaired,       \* history: the keys get_cached_data took out of the index
    tpc,            \* SpecCache: where each thread is
    targ,           \* SpecCache: each thread's key and payload
    tret,           \* SpecCache: what each thread's last get returned
    put_done,       \* SpecCache, history: keys whose cache_radar_data has returned
    pt_cells,       \* SpecPoints: the accumulator's cells, each with its distance from the center
    pt_i,           \* SpecPoints: index of the next cell of the grid-to-points loop
    points_data     \* SpecPoints: points_data

mergeVars == <<grid_list, mi, merged_grid, merge_raised>>
cacheVars == <<cache_index, index_file, blobs>>
requestVars == <<pc, req, center_lat, directory, stations, station_timestamps, ti, si, timestamp,
                 radar_data_list, station_info, response, fetch_log, merge_trace>>
upstreamVars == <<latest>>
threadVars == <<tpc, targ, tret, put_done>>
pointVars == <<pt_cells, pt_i, points_data>>

vars == <<grid_list, mi, merged_grid, merge_raised, latest, cache_index, index_file, blobs,
          pc, req, center_lat, directory, stations, station_timestamps, ti, si, timestamp,
          radar_data_list, station_info, response, fetch_log, merge_trace, writes, repaired,
          tpc, targ, tret, put_done, pt_cells, pt_i, points_data>>

Threads == {1, 2}

RECURSIVE SeqsUpTo(_, _)
SeqsUpTo(S, n) ==
    IF n = 0 THEN {<< >>}
    ELSE LET shorter == SeqsUpTo(S, n - 1)
         IN  shorter \cup {Append(q, x) : q \in {r \in shorter : Len(r) = n - 1}, x \in S}

\* The text f"{time_str[:2]}:{time_str[2:]} UTC" of a time HHMM, and 'N/A'.
FormatTime(t) == [text |-> "UTC", hh |-> t \div 100, mm |-> t % 100]
NotAvailable == [text |-> "N/A", hh |-> 0, mm |-> 0]
\* station_timestamps = {} and station_timestamps.get(id, default)
NoTimestamps == [s \in StationIds |-> << >>]
DictGet(dict, id, default) == IF dict[id] = << >> THEN default ELSE dict[id][1]

\* The parts of the state a specification does not use.
NoMerge == grid_list = << >> /\ mi = 1 /\ merged_grid = masked_all /\ merge_raised = FALSE
NoCall == [key |-> <<0, 0, 0>>, payload |-> << >>, snap |-> {}]
NoReturn == [key |-> <<0, 0, 0>>, ret |-> << >>]
NoThreads ==
    /\ tpc = [t \in Threads |-> "idle"]
    /\ targ = [t \in Threads |-> NoCall]
    /\ tret = [t \in Threads |-> NoReturn]
    /\ put_done = {}
RequestCleared ==
    /\ req = 0 /\ center_lat = 0 /\ directory = ""
    /\ stations = << >> /\ station_timestamps = NoTimestamps
    /\ ti = 1 /\ si = 1 /\ timestamp = 0
    /\ radar_data_list = << >> /\ station_info = << >>
    /\ response = << >> /\ fetch_log = << >> /\ merge_trace = << >>
NoRequest == pc = "idle" /\ RequestCleared
NoPoints == pt_cells = << >> /\ pt_i = 1 /\ points_data = << >>
QuietUpstream ==
    /\ latest = [s \in StationIds |-> 0]
EmptyCache ==
    /\ cache_index = {} /\ index_file = SaveCacheIndex({})
    /\ blobs = [k \in Keys |-> << >>]

(***************************************************************************)
(* SpecMerge: the station loop of merge_radar_data, one iteration a step.  *)
(***************************************************************************)
InitMerge ==
    /\ grid_list \in SeqsUpTo(StationInputs, MaxStations)
    /\ mi = 1
    /\ merged_grid = masked_all
    /\ merge_raised = FALSE
    /\ QuietUpstream
    /\ writes = {} /\ repaired = {}
    /\ EmptyCache /\ NoRequest /\ NoThreads /\ NoPoints

\* One iteration of "for (radar_data, station) in zip(...)".  An exception
\* of the code before the try block leaves the loop and the function.
ProcessStation ==
    /\ mi <= Len(grid_list) /\ ~merge_raised
    /\ IF grid_list[mi].kind = "unguarded"
       THEN merge_raised' = TRUE /\ UNCHANGED <<mi, merged_grid>>
       ELSE /\ merged_grid' = LoopBody(merged_grid, grid_list[mi])
            /\ mi' = mi + 1
            /\ UNCHANGED merge_raised
    /\ UNCHANGED <<grid_list, upstreamVars, writes, repaired, cacheVars, requestVars, threadVars, pointVars>>

NextMerge == ProcessStation

SpecMerge == InitMerge /\ [][NextMerge]_vars

(***************************************************************************)
(* Spec: requests through generate_radar, one at a time (the handler is a  *)
(* coroutine that never awaits), while the upstream publishes datasets.    *)
(***************************************************************************)
\* The cache directory a process may start with: an empty index, an index
\* entry whose blob is missing, an index file that is not JSON, or no index
\* file.  RadarCache() loads the index.
StartCache ==
    /\ index_file \in {SaveCacheIndex({}), SaveCacheIndex({get_cache_key(1, Date, 1)}),
                        CorruptIndexFile, MissingIndexFile}
    /\ cache_index = LoadCacheIndex(index_file)
    /\ blobs = [k \in Keys |-> << >>]

\* radar_cache = RadarCache() at the import of radar_viz: when
\* _load_cache_index raises, the import fails and no request is served.
ImportRadarViz ==
    \/ /\ StartCache
       /\ ~LoadCacheIndexRaises(index_file)
       /\ pc = "idle"
    \/ /\ index_file = UnreadableIndexFile
       /\ LoadCacheIndexRaises(index_file)
       /\ cache_index = {}
       /\ blobs = [k \in Keys |-> << >>]
       /\ pc = "import_failed"

Init ==
    /\ QuietUpstream
    /\ ImportRadarViz
    /\ writes = {} /\ repaired = {}
    /\ RequestCleared /\ NoMerge /\ NoThreads /\ NoPoints

\* The upstream publishes a newer dataset of station s.
Publish(s) ==
    /\ latest[s] < MaxTime
    /\ latest' = [latest EXCEPT ![s] = @ + 1]
    /\ UNCHANGED <<writes, repaired, cacheVars, requestVars, mergeVars, threadVars, pointVars>>

\* POST /generate-radar arrives.
Receive(lat) ==
    /\ pc \in {"idle", "done"}
    /\ req < MaxRequests
    /\ req' = req + 1
    /\ center_lat' = lat
    /\ pc' = "select"
    /\ directory' = ""
    /\ stations' = << >>
    /\ station_timestamps' = NoTimestamps
    /\ ti' = 1 /\ si' = 1 /\ timestamp' = 0
    /\ radar_data_list' = << >> /\ station_info' = << >>
    /\ response' = << >> /\ fetch_log' = << >> /\ merge_trace' = << >>
    /\ UNCHANGED <<upstreamVars, writes, repaired, cacheVars, mergeVars, threadVars, pointVars>>

\* {"status": "error", "message": str(e)}; the message names where e was raised.
ErrorResponse(e) ==
    <<[status |-> "error", message |-> e, points |-> << >>, stations |-> << >>]>>

\* get_radars_within_distance: the directory call fails (the exception goes
\* through generate_plot_from_center to generate_radar's except) or succeeds.
SelectStationsSwallow(ok) ==
    /\ pc = "select"
    /\ directory' = IF ok THEN "ok" ELSE "failed"
    /\ stations' = IF ok THEN get_radars_within_distance(center_lat, max_distance_km * 1000)
                   ELSE << >>
    /\ pc' = "timestamps"
    /\ UNCHANGED <<req, center_lat, station_timestamps, ti, si, timestamp,
                   radar_data_list, station_info, response, fetch_log, merge_trace>>
    /\ UNCHANGED <<upstreamVars, writes, repaired, cacheVars, mergeVars, threadVars, pointVars>>
SelectStations(ok) ==
    /\ pc = "select"
    /\ directory' = IF ok THEN "ok" ELSE "failed"
    /\ IF ok
       THEN /\ stations' = get_radars_within_distance(center_lat, max_distance_km * 1000)
            /\ pc' = "timestamps"
            /\ UNCHANGED response
       ELSE /\ response' = ErrorResponse("get_radars_within_distance")
            /\ pc' = "done"
            /\ UNCHANGED stations
    /\ UNCHANGED <<req, center_lat, station_timestamps, ti, si, timestamp,
                   radar_data_list, station_info, fetch_log, merge_trace>>
    /\ UNCHANGED <<upstreamVars, writes, repaired, cacheVars, mergeVars, threadVars, pointVars>>

\* get_radar_timestamp: None (0) when the call fails or no dataset exists.
get_radar_timestamp(station_id, ok) == IF ok THEN latest[station_id] ELSE 0

\* One iteration of the timestamp pass.
TimestampPass(ok) ==
    /\ pc = "timestamps"
    /\ ti <= Len(stations)
    /\ LET id == stations[ti].id
           t == get_radar_timestamp(id, ok)
       IN  station_timestamps' =
               IF t # 0 THEN [station_timestamps EXCEPT ![id] = <<FormatTime(t)>>]
               ELSE station_timestamps
    /\ ti' = ti + 1
    /\ UNCHANGED <<pc, req, center_lat, directory, stations, si, timestamp,
                   radar_data_list, station_info, response, fetch_log, merge_trace>>
    /\ UNCHANGED <<upstreamVars, writes, repaired, cacheVars, mergeVars, threadVars, pointVars>>

BeginFetch ==
    /\ pc = "timestamps"
    /\ ti > Len(stations)
    /\ pc' = "fetch"
    /\ UNCHANGED <<req, center_lat, directory, stations, station_timestamps, ti, si, timestamp,
                   radar_data_list, station_info, response, fetch_log, merge_trace>>
    /\ UNCHANGED <<upstreamVars, writes, repaired, cacheVars, mergeVars, threadVars, pointVars>>

\* The body of the fetch loop once get_radar_data has returned ret.
LoopAppendAlways(station, ret) ==
    /\ radar_data_list' = radar_data_list \o ret
    /\ station_info' = Append(station_info,
            [id |-> station.id, lat |-> station.lat, distance |-> station.distance,
             timestamp |-> DictGet(station_timestamps, station.id, NotAvailable)])
LoopAppend(station, ret) ==
    IF ret # << >>
    THEN /\ radar_data_list' = Append(radar_data_list, ret[1])
         /\ station_info' = Append(station_info,
                [id |-> station.id, lat |-> station.lat, distance |-> station.distance,
                 timestamp |-> DictGet(station_timestamps, station.id, NotAvailable)])
    ELSE UNCHANGED <<radar_data_list, station_info>>

\* get_radar_data up to the raw fetch: the timestamp lookup and the cache lookup.
GetRadarDataLookup(ok) ==
    /\ pc = "fetch"
    /\ si <= Len(stations)
    /\ timestamp = 0
    /\ LET id == stations[si].id
           t == get_radar_timestamp(id, ok)
           key == get_cache_key(id, Date, t)
           got == get_cached_data(cache_index, index_file, blobs, key)
       IN  IF t = 0
           THEN \* return None
                /\ LoopAppend(stations[si], << >>)
                /\ fetch_log' = Append(fetch_log,
                       [id |-> id, time |-> 0, how |-> "none", ret |-> << >>])
                /\ si' = si + 1
                /\ UNCHANGED <<timestamp, cacheVars, repaired>>
           ELSE /\ cache_index' = got.index
                /\ index_file' = got.ifile
                /\ repaired' = repaired \cup (cache_index \ got.index)
                /\ UNCHANGED blobs
                /\ IF got.ret # << >>
                   THEN \* return cached_data
                        /\ LoopAppend(stations[si], got.ret)
                        /\ fetch_log' = Append(fetch_log,
                               [id |-> id, time |-> t, how |-> "hit", ret |-> got.ret])
                        /\ si' = si + 1
                        /\ UNCHANGED timestamp
                   ELSE \* the raw fetch is sent
                        /\ timestamp' = t
                        /\ UNCHANGED <<si, radar_data_list, station_info, fetch_log>>
    /\ UNCHANGED <<pc, req, center_lat, directory, stations, station_timestamps, ti, response,
                   merge_trace>>
    /\ UNCHANGED <<upstreamVars, writes, mergeVars, threadVars, pointVars>>

\* get_radar_data from the raw fetch on: catalog.datasets[0] is the newest
\* dataset at the time of this query.
GetRadarDataFetch(ok) ==
    /\ pc = "fetch"
    /\ si <= Len(stations)
    /\ timestamp # 0
    /\ LET id == stations[si].id
           key == get_cache_key(id, Date, timestamp)
           data == ScanOf(id, latest[id])
           put == cache_radar_data(cache_index, blobs, key, data)
       IN  IF ok
           THEN /\ blobs' = put.files
                /\ cache_index' = put.index
                /\ index_file' = put.ifile
                /\ writes' = writes \cup {[key |-> key, payload |-> data]}
                /\ LoopAppend(stations[si], <<data>>)
                /\ fetch_log' = Append(fetch_log,
                       [id |-> id, time |-> timestamp, how |-> "fetched", ret |-> <<data>>])
           ELSE \* except: return None
                /\ LoopAppend(stations[si], << >>)
                /\ fetch_log' = Append(fetch_log,
                       [id |-> id, time |-> timestamp, how |-> "none", ret |-> << >>])
                /\ UNCHANGED <<writes, cacheVars>>
    /\ timestamp' = 0
    /\ si' = si + 1
    /\ UNCHANGED <<pc, req, center_lat, directory, stations, station_timestamps, ti, response,
                   merge_trace>>
    /\ UNCHANGED <<upstreamVars, repaired, mergeVars, threadVars, pointVars>>

FaultKinds == {"ok", "raise", "unguarded"}

\* The rest of the handler: merge_radar_data, the result, the response.
MergeAndRespond(conv_raises) ==
    /\ pc = "fetch"
    /\ si > Len(stations)
    /\ \E faults \in [DOMAIN radar_data_list -> FaultKinds] :
          LET m == merge_radar_data(radar_data_list, center_lat, station_info,
                                    faults, conv_raises)
          IN  /\ response' =
                    IF m.raised THEN ErrorResponse("merge_radar_data")
                    ELSE <<[status |-> "success", message |-> "", points |-> m.points,
                            stations |-> station_info]>>
              /\ merge_trace' = <<m.trace>>
    /\ pc' = "done"
    /\ UNCHANGED <<req, center_lat, directory, stations, station_timestamps, ti, si, timestamp,
                   radar_data_list, station_info, fetch_log>>
    /\ UNCHANGED <<upstreamVars, writes, repaired, cacheVars, mergeVars, threadVars, pointVars>>

Next ==
    \/ \E s \in StationIds : Publish(s)
    \/ \E lat \in Centers : Receive(lat)
    \/ \E ok \in BOOLEAN : SelectStations(ok)
    \/ \E ok \in BOOLEAN : TimestampPass(ok)
    \/ BeginFetch
    \/ \E ok \in BOOLEAN : GetRadarDataLookup(ok)
    \/ \E ok \in BOOLEAN : GetRadarDataFetch(ok)
    \/ \E conv_raises \in BOOLEAN : MergeAndRespond(conv_raises)

Spec == Init /\ [][Next]_vars

(***************************************************************************)
(* SpecCache: two threads call get_cached_data and cache_radar_data on the *)
(* one RadarCache without locking.  A step is what runs without another    *)
(* thread's step in between: a dict operation, a file-system call, the     *)
(* start and the end of a file being written.                              *)
(***************************************************************************)
\* The keys and payloads the threads use: the datasets of station 1; the same
\* key always comes with the same payload.
ThreadKeys == {get_cache_key(1, Date, t) : t \in 1..MaxTime}
PayloadOf(key) == ScanOf(key[1], key[3])

InitCache ==
    /\ QuietUpstream
    /\ StartCache
    /\ writes = {} /\ repaired = {}
    /\ NoRequest /\ NoMerge /\ NoThreads /\ NoPoints

Frame == UNCHANGED <<upstreamVars, requestVars, mergeVars, pointVars>>

At(t, where) == tpc' = [tpc EXCEPT ![t] = where]

\* get_cached_data(key) is called.
StartGet(t, key) ==
    /\ tpc[t] = "idle"
    /\ At(t, "get_in_index")
    /\ targ' = [targ EXCEPT ![t] = [key |-> key, payload |-> << >>, snap |-> {}]]
    /\ tret' = [tret EXCEPT ![t] = NoReturn]
    /\ UNCHANGED <<cacheVars, writes, repaired, put_done>>
    /\ Frame

\* if cache_key not in self.cache_index: return None
GetInIndex(t) ==
    /\ tpc[t] = "get_in_index"
    /\ IF targ[t].key \notin cache_index
       THEN /\ At(t, "idle")
            /\ tret' = [tret EXCEPT ![t] = [key |-> targ[t].key, ret |-> << >>]]
       ELSE /\ At(t, "get_exists")
            /\ UNCHANGED tret
    /\ UNCHANGED <<cacheVars, writes, repaired, targ, put_done>>
    /\ Frame

\* if not os.path.exists(cache_file)
GetExists(t) ==
    /\ tpc[t] = "get_exists"
    /\ At(t, IF blobs[targ[t].key] = << >> THEN "get_del" ELSE "get_load")
    /\ UNCHANGED <<cacheVars, writes, repaired, targ, tret, put_done>>
    /\ Frame

\* del self.cache_index[cache_key]: KeyError when the key is gone.
GetDel(t) ==
    /\ tpc[t] = "get_del"
    /\ IF targ[t].key \in cache_index
       THEN /\ cache_index' = cache_index \ {targ[t].key}
            /\ repaired' = repaired \cup {targ[t].key}
            /\ At(t, "get_save")
       ELSE /\ At(t, "raised")
            /\ UNCHANGED <<cache_index, repaired>>
    /\ UNCHANGED <<index_file, blobs, writes, targ, tret, put_done>>
    /\ Frame

\* _save_cache_index, open(self.index_file, 'w'): the file is truncated and
\* json.dump starts to iterate over the dict.
SaveOpen(t) ==
    /\ tpc[t] \in {"get_save", "put_save"}
    /\ index_file' = CorruptIndexFile
    /\ targ' = [targ EXCEPT ![t].snap = cache_index]
    /\ At(t, IF tpc[t] = "get_save" THEN "get_dump" ELSE "put_dump")
    /\ UNCHANGED <<cache_index, blobs, writes, repaired, tret, put_done>>
    /\ Frame

\* json.dump ends.  When the dict changed under the iteration it raises
\* RuntimeError (the file stays cut short) or writes the dict as it was or as
\* it is.  In get_cached_data the error leaves the call; in cache_radar_data
\* "except Exception" swallows it.
SaveDump(t, outcome) ==
    /\ tpc[t] \in {"get_dump", "put_dump"}
    /\ outcome \in IF targ[t].snap = cache_index THEN {"new"} ELSE {"raise", "old", "new"}
    /\ index_file' = CASE outcome = "raise" -> index_file
                       [] outcome = "old" -> SaveCacheIndex(targ[t].snap)
                       [] outcome = "new" -> SaveCacheIndex(cache_index)
    /\ IF tpc[t] = "get_dump"
       THEN /\ At(t, IF outcome = "raise" THEN "raised" ELSE "idle")
            /\ tret' = [tret EXCEPT ![t] = [key |-> targ[t].key, ret |-> << >>]]
            /\ UNCHANGED put_done
       ELSE /\ At(t, "idle")
            /\ put_done' = put_done \cup {targ[t].key}
            /\ UNCHANGED tret
    /\ UNCHANGED <<cache_index, blobs, writes, repaired, targ>>
    /\ Frame

\* data = np.load(cache_file); return (data['ref'], data['rng'], data['az']);
\* a file that is being written does not load: except Exception: return None.
GetLoad(t) ==
    /\ tpc[t] = "get_load"
    /\ At(t, "idle")
    /\ tret' = [tret EXCEPT ![t] =
                  [key |-> targ[t].key,
                   ret |-> IF blobs[targ[t].key][1] = PartialFile THEN << >>
                           ELSE <<NpLoad(blobs[targ[t].key][1])>>]]
    /\ UNCHANGED <<cacheVars, writes, repaired, targ, put_done>>
    /\ Frame

\* cache_radar_data(key, payload) is called.
StartPut(t, key) ==
    /\ tpc[t] = "idle"
    /\ At(t, "put_savez")
    /\ targ' = [targ EXCEPT ![t] = [key |-> key, payload |-> <<PayloadOf(key)>>, snap |-> {}]]
    /\ tret' = [tret EXCEPT ![t] = NoReturn]
    /\ UNCHANGED <<cacheVars, writes, repaired, put_done>>
    /\ Frame

\* np.savez opens the file.
PutSavezOpen(t) ==
    /\ tpc[t] = "put_savez"
    /\ blobs' = [blobs EXCEPT ![targ[t].key] = <<PartialFile>>]
    /\ At(t, "put_write")
    /\ UNCHANGED <<cache_index, index_file, writes, repaired, targ, tret, put_done>>
    /\ Frame

\* np.savez has written the file.
PutSavezClose(t) ==
    /\ tpc[t] = "put_write"
    /\ blobs' = [blobs EXCEPT ![targ[t].key] = <<Savez(targ[t].payload[1])>>]
    /\ writes' = writes \cup {[key |-> targ[t].key, payload |-> targ[t].payload[1]]}
    /\ At(t, "put_index")
    /\ UNCHANGED <<cache_index, index_file, repaired, targ, tret, put_done>>
    /\ Frame

\* self.cache_index[cache_key] = {...}
PutIndex(t) ==
    /\ tpc[t] = "put_index"
    /\ cache_index' = cache_index \cup {targ[t].key}
    /\ At(t, "put_save")
    /\ UNCHANGED <<index_file, blobs, writes, repaired, targ, tret, put_done>>
    /\ Frame

NextCache ==
    \E t \in Threads :
        \/ \E key \in ThreadKeys : StartGet(t, key)
        \/ GetInIndex(t)
        \/ GetExists(t)
        \/ GetDel(t)
        \/ SaveOpen(t)
        \/ \E outcome \in {"raise", "old", "new"} : SaveDump(t, outcome)
        \/ GetLoad(t)
        \/ \E key \in ThreadKeys : StartPut(t, key)
        \/ PutSavezOpen(t)
        \/ PutSavezClose(t)
        \/ PutIndex(t)

SpecCache == InitCache /\ [][NextCache]_vars

(***************************************************************************)
(* SpecPoints: the grid-to-points loop of merge_radar_data, one cell a     *)
(* step, on accumulators whose cells carry values around the 5 dBZ floor   *)
(* and above the clamp, at distances around max_reliable_range.            *)
(***************************************************************************)
\* cell values in tenths of a dBZ: 4.9, 5.0, 71.0
Dbz10Vals == {49, 50, 710}
\* point_distance of a cell, in metres
PointDistances == {max_reliable_range, max_reliable_range + 1}
PointCells ==
    [mask : {TRUE}, data : {0}, dist : PointDistances]
        \cup [mask : {FALSE}, data : Dbz10Vals, dist : PointDistances]

InitPoints ==
    /\ pt_cells \in [1..GridSize -> PointCells]
    /\ pt_i = 1
    /\ points_data = << >>
    /\ QuietUpstream
    /\ writes = {} /\ repaired = {}
    /\ EmptyCache /\ NoRequest /\ NoMerge /\ NoThreads

\* One iteration of the loop over the cells.
ConvertCell ==
    /\ pt_i <= Len(pt_cells)
    /\ LET cell == pt_cells[pt_i]
           point == PointOfCell(cell.mask, cell.data, cell.dist)
       IN  points_data' =
               IF point = << >> THEN points_data
               ELSE Append(points_data, [cell |-> pt_i, value100 |-> point[1]])
    /\ pt_i' = pt_i + 1
    /\ UNCHANGED <<pt_cells, upstreamVars, writes, repaired, cacheVars, requestVars, mergeVars, threadVars>>

NextPoints == ConvertCell

SpecPoints == InitPoints /\ [][NextPoints]_vars

(***************************************************************************)
(* Properties of the merge loop (SpecMerge).                               *)
(***************************************************************************)
Perms(n) == {p \in [1..n -> 1..n] : \A i, j \in 1..n : p[i] = p[j] => i = j}
Permuted(list, p) == [i \in 1..Len(list) |-> list[p[i]]]
LoopDone == mi = Len(grid_list) + 1

\* C1: once the loop has gone through the station list, the accumulator is
\* the one the loop yields on every permutation of that list, cell for cell,
\* whatever stations are skipped or carry a grid without data.
MergeOrderIndependent ==
    LoopDone =>
        \A p \in Perms(Len(grid_list)) :
            MergeLoop(masked_all, Permuted(grid_list, p)) = merged_grid

\* Three stations, one skipped; two grids overlap in a cell with different
\* values, and a cell has data from only one of them.
MergeOrderWitness ==
    /\ LoopDone
    /\ Len(grid_list) = 3
    /\ \E i, j, k \in 1..3 :
          /\ grid_list[i].kind = "grid" /\ grid_list[j].kind = "grid"
          /\ grid_list[k].kind = "novalid"
          /\ \E c, d \in Cells :
                /\ grid_list[i].grid_z[c] = Data(30) /\ grid_list[j].grid_z[c] = Data(10)
                /\ i < j
                /\ merged_grid[c] = Data(30)
                /\ grid_list[i].grid_z[d] = NoData /\ grid_list[j].grid_z[d] = Data(10)
                /\ merged_grid[d] = Data(10)

\* C2: a merge step combines the accumulator and the station's grid cell by
\* cell: an empty accumulator cell takes the new value, two values give their
\* maximum, an empty new cell leaves the accumulator cell as it is; the first
\* station that contributes a grid becomes the accumulator as is.
MergeStepRule ==
    [][(mi' = mi + 1 /\ grid_list[mi].kind = "grid") =>
          LET g == grid_list[mi].grid_z
          IN  /\ \A c \in Cells :
                    /\ (merged_grid[c].mask /\ ~g[c].mask) => merged_grid'[c] = g[c]
                    /\ (~merged_grid[c].mask /\ ~g[c].mask) =>
                          /\ ~merged_grid'[c].mask
                          /\ merged_grid'[c].data = Max2(merged_grid[c].data, g[c].data)
                    /\ g[c].mask => merged_grid'[c] = merged_grid[c]
              /\ (\A j \in 1..(mi - 1) : grid_list[j].kind # "grid") => merged_grid' = g
       ]_vars

\* After the second grid was merged: a cell taken from the new grid, a cell
\* with the maximum of 10 and 30, a cell kept from the accumulator.
MergeStepWitness ==
    /\ mi = 3
    /\ grid_list[1].kind = "grid" /\ grid_list[2].kind = "grid"
    /\ \E a, b, c \in Cells :
          /\ grid_list[1].grid_z[a] = NoData /\ grid_list[2].grid_z[a] = Data(10)
          /\ merged_grid[a] = Data(10)
          /\ grid_list[1].grid_z[b] = Data(10) /\ grid_list[2].grid_z[b] = Data(30)
          /\ merged_grid[b] = Data(30)
          /\ grid_list[1].grid_z[c] = Data(30) /\ grid_list[2].grid_z[c] = NoData
          /\ merged_grid[c] = Data(30)

SkipKinds == {"novalid", "raise"}
GridsOnly(inputs) == SelectSeq(inputs, LAMBDA inp : inp.kind = "grid")
Skipped(kinds) ==
    (mi <= Len(grid_list) /\ ~merge_raised /\ grid_list[mi].kind \in kinds) =>
        /\ merged_grid' = merged_grid
        /\ mi' = mi + 1 /\ ~merge_raised'
MergedSoFar ==
    ~merge_raised' =>
        merged_grid' = MergeLoop(masked_all, GridsOnly(SubSeq(grid_list, 1, mi' - 1)))

\* The statement of C17 as written: a station with no valid point or whose
\* processing raises, wherever it raises, leaves the accumulator as it was
\* and the loop goes on to the next station.
SkippedStationAnyRaise ==
    [][Skipped(SkipKinds \cup {"unguarded"}) /\ MergedSoFar]_vars

\* C17: a station whose scan has no valid point, or whose interpolation
\* block (the try block) raises, leaves the accumulator as it was and the
\* loop goes on, so that the accumulator is the merge of the grids of the
\* stations passed so far; a station whose processing raises before the try
\* block ends the loop, and no later station is processed.
SkippedStationFrame ==
    [][/\ Skipped(SkipKinds)
       /\ (mi <= Len(grid_list) /\ ~merge_raised /\ grid_list[mi].kind = "unguarded") =>
              merge_raised' /\ merged_grid' = merged_grid /\ mi' = mi
       /\ merge_raised => (mi' = mi /\ merged_grid' = merged_grid)
       /\ MergedSoFar]_vars

\* A station with no valid point and one that raises in the try block were
\* passed over a non-empty accumulator, and the station after them was merged.
SkippedStationWitness ==
    /\ Len(grid_list) = 3 /\ mi = 4 /\ ~merge_raised
    /\ grid_list[1].kind = "grid" /\ grid_list[2].kind \in SkipKinds
    /\ grid_list[3].kind = "grid"
    /\ \E c, d \in Cells :
          /\ grid_list[1].grid_z[c] = Data(30) /\ merged_grid[c] = Data(30)
          /\ grid_list[1].grid_z[d] = NoData /\ grid_list[3].grid_z[d] = Data(10)
          /\ merged_grid[d] = Data(10)

(***************************************************************************)
(* Properties of a request (Spec).                                         *)
(***************************************************************************)
Succeeded(e) == e.ret # << >>
\* The get_radar_data calls of the request that returned a scan, in call order.
SucceededFetches == SelectSeq(fetch_log, Succeeded)

\* C3: a station whose fetch fails stops neither the request nor the other
\* fetches: the calls made so far are those of the selected stations in
\* selector order, the scans and the stations handed to the merge are exactly
\* those of the calls that returned a scan, index by index, and a request
\* that got its station list ends after a call for every selected station,
\* with the merge run on these lists and, on success, these stations in the
\* response.
FetchFailureContained ==
    directory = "ok" =>
        /\ Len(fetch_log) <= Len(stations)
        /\ \A i \in DOMAIN fetch_log : fetch_log[i].id = stations[i].id
        /\ Len(radar_data_list) = Len(station_info)
        /\ Len(radar_data_list) = Len(SucceededFetches)
        /\ \A i \in DOMAIN radar_data_list :
              /\ radar_data_list[i] = SucceededFetches[i].ret[1]
              /\ station_info[i].id = SucceededFetches[i].id
        /\ pc = "done" =>
              /\ Len(fetch_log) = Len(stations)
              /\ merge_trace # << >>
              /\ response # << >>
              /\ response[1].status = "success" => response[1].stations = station_info

\* Two stations selected, the first one's fetch failed, the second one's scan
\* alone went to the merge and into the response.
FetchFailureWitness ==
    /\ pc = "done"
    /\ Len(stations) = 2 /\ Len(fetch_log) = 2
    /\ fetch_log[1].ret = << >> /\ fetch_log[2].ret # << >>
    /\ radar_data_list = <<fetch_log[2].ret[1]>>
    /\ response[1].status = "success"
    /\ Len(response[1].stations) = 1
    /\ response[1].stations[1].id = stations[2].id

\* The cache holds key: get_cached_data would return a scan for it.
CacheHolds(index, files, key) ==
    key \in index /\ files[key] # << >> /\ files[key][1] # PartialFile

\* C4: get_radar_data on the key of the station's latest dataset: when the
\* cache holds the key the call returns the cached scan, sends no raw fetch
\* and leaves the cache as it was; when it does not, a raw fetch is sent,
\* and once it returns, the scan is in the cache under that key, it is the
\* value returned (the dataset's scan when the dataset is still the latest),
\* and a lookup of that key right afterwards finds it.
CacheHitAndMiss ==
    [][/\ (pc = "fetch" /\ timestamp = 0 /\ timestamp' # 0) =>
              ~CacheHolds(cache_index, blobs, get_cache_key(stations[si].id, Date, timestamp'))
       /\ (pc = "fetch" /\ timestamp = 0 /\ si <= Len(stations)
              /\ Len(fetch_log') = Len(fetch_log) + 1
              /\ fetch_log'[Len(fetch_log')].time # 0) =>
              LET e == fetch_log'[Len(fetch_log')]
                  key == get_cache_key(e.id, Date, e.time)
              IN  /\ e.how = "hit"
                  /\ CacheHolds(cache_index, blobs, key)
                  /\ e.ret = <<NpLoad(blobs[key][1])>>
                  /\ timestamp' = 0
                  /\ UNCHANGED <<cache_index, index_file, blobs, writes>>
       /\ (pc = "fetch" /\ timestamp # 0 /\ Len(fetch_log') = Len(fetch_log) + 1
              /\ fetch_log'[Len(fetch_log')].how = "fetched") =>
              LET e == fetch_log'[Len(fetch_log')]
                  key == get_cache_key(e.id, Date, e.time)
              IN  /\ e.time = timestamp
                  /\ ~CacheHolds(cache_index, blobs, key)
                  /\ CacheHolds(cache_index', blobs', key)
                  /\ blobs'[key] = <<Savez(e.ret[1])>>
                  /\ key \in LoadCacheIndex(index_file')
                  /\ e.time = latest[e.id] => e.ret = <<ScanOf(e.id, e.time)>>
                  /\ get_cached_data(cache_index', index_file', blobs', key).ret # << >>
      ]_vars

\* In the second request a station's scan comes from the cache, under a key
\* an earlier call stored, while another station's scan is fetched.
CacheHitWitness ==
    /\ req = 2 /\ pc = "done"
    /\ Len(fetch_log) = 2
    /\ fetch_log[1].how = "hit" /\ fetch_log[2].how = "fetched"
    /\ \E w \in writes : w.key = get_cache_key(fetch_log[1].id, Date, fetch_log[1].time)

Success(points, station_list) ==
    <<[status |-> "success", message |-> "", points |-> points, stations |-> station_list]>>

\* C8: a request that got its station list and ends with no usable station
\* (none selected, or no fetch returned a scan) answers success with no
\* points and no stations; merge_radar_data returns at once, without an
\* error, on an empty scan list and on scan and station lists of different
\* lengths.
ZeroStationsSuccess ==
    /\ (pc = "done" /\ directory = "ok" /\ station_info = << >>) =>
          /\ response = Success(<< >>, << >>)
          /\ merge_trace = <<NoTrace>>
    /\ \A conv_raises \in BOOLEAN, faults \in [DOMAIN radar_data_list -> FaultKinds] :
          /\ merge_radar_data(<< >>, center_lat, station_info, faults, conv_raises)
                = [raised |-> FALSE, points |-> << >>, trace |-> NoTrace]
          /\ radar_data_list # << >> =>
                merge_radar_data(radar_data_list, center_lat, Tail(station_info),
                                 faults, conv_raises)
                   = [raised |-> FALSE, points |-> << >>, trace |-> NoTrace]

\* Two stations were selected and neither fetch returned a scan.
ZeroStationsWitness ==
    /\ pc = "done"
    /\ Len(stations) = 2 /\ Len(fetch_log) = 2
    /\ \A i \in 1..2 : fetch_log[i].ret = << >>
    /\ response = Success(<< >>, << >>)

\* C9: when the directory call fails the request ends there with the error
\* response: no station list, no timestamp lookup, no get_radar_data call,
\* no change of the cache, no merge.
DirectoryFailureAborts ==
    [][directory' = "failed" =>
          /\ pc' = "done"
          /\ response' = ErrorResponse("get_radars_within_distance")
          /\ stations' = << >>
          /\ ti' = 1 /\ si' = 1 /\ timestamp' = 0
          /\ station_timestamps' = NoTimestamps
          /\ fetch_log' = << >>
          /\ radar_data_list' = << >> /\ station_info' = << >>
          /\ merge_trace' = << >>
          /\ UNCHANGED <<cache_index, index_file, blobs, writes>>
      ]_vars

\* The directory call of the second request failed, with datasets published
\* and scans in the cache from the first request.
DirectoryFailureWitness ==
    /\ directory = "failed"
    /\ req = 2
    /\ writes # {}
    /\ \E s \in StationIds : latest[s] # 0
    /\ response[1].status = "error"

\* The stations of the merge whose pass did not raise inside the try block.
NotRaised(kinds) == {i \in DOMAIN kinds : kinds[i] # "raise"}
RECURSIVE Pick(_, _, _)
\* The subsequence of list at the indices in keep, from index i on.
Pick(list, keep, i) ==
    IF i > Len(list) THEN << >>
    ELSE IF i \in keep THEN <<list[i]>> \o Pick(list, keep, i + 1)
         ELSE Pick(list, keep, i + 1)

\* C10, as the claim states it: whenever a station's pass or the
\* grid-to-points loop of merge_radar_data raises, the response has status
\* "error"; the status is always "success" or "error".
MergeFailureIsError ==
    (pc = "done" /\ merge_trace # << >>) =>
        /\ response[1].status \in {"success", "error"}
        /\ (merge_trace[1].conv
              \/ \E i \in DOMAIN merge_trace[1].kinds :
                    merge_trace[1].kinds[i] \in {"raise", "unguarded"}) =>
                 response[1].status = "error"

\* C10, amended: a request that has ended has a response with status
\* "success" or "error".  The status is "error" exactly when an exception
\* left merge_radar_data, which is when a station's pass raised before the
\* try block.  A station whose pass raises inside the try block is left out:
\* the points are those of the merge without it.  When the grid-to-points
\* loop raises the response is success with no points.
MergeFailureOutcome ==
    /\ pc = "done" => response # << >> /\ response[1].status \in {"success", "error"}
    /\ (pc = "done" /\ merge_trace # << >>) =>
          LET kinds == merge_trace[1].kinds
              unguarded == \E i \in DOMAIN kinds : kinds[i] = "unguarded"
              keep == NotRaised(kinds)
              rest == merge_radar_data(Pick(radar_data_list, keep, 1), center_lat,
                                       Pick(station_info, keep, 1),
                                       [i \in 1..Cardinality(keep) |-> "ok"], FALSE)
          IN  /\ unguarded <=> response[1].status = "error"
              /\ unguarded => response = ErrorResponse("merge_radar_data")
              /\ merge_trace[1].conv => response = Success(<< >>, station_info)
              /\ (~unguarded /\ ~merge_trace[1].conv) =>
                     response = Success(rest.points, station_info)

\* The second station's pass raised inside the try block and the response
\* is success with the point of the first station.
MergeFailureWitness ==
    /\ pc = "done" /\ merge_trace # << >>
    /\ merge_trace[1].kinds = <<"grid", "raise">>
    /\ ~merge_trace[1].conv
    /\ response[1].status = "success"
    /\ response[1].points # << >>
    /\ Len(response[1].stations) = 2

\* C5: what get_cached_data returns for a key is a scan that
\* cache_radar_data was given for that key, identical to it, masked cells
\* included.
CacheRoundTrip ==
    \A k \in Keys :
        LET got == get_cached_data(cache_index, index_file, blobs, k).ret
        IN  got # << >> =>
                \E w \in writes :
                    /\ w.key = k
                    /\ got[1] = w.payload
                    /\ Mask(got[1].ref) = Mask(w.payload.ref)

\* C6: every payload given to cache_radar_data under a key is the scan of
\* the dataset the key names, so two writes under one key carry the same
\* payload.
CacheWritesIdempotent ==
    /\ \A w \in writes : w.payload = ScanOf(w.key[1], w.key[3])
    /\ \A w1, w2 \in writes : w1.key = w2.key => w1.payload = w2.payload

\* A step of get_radar_data in which get_cached_data is called and returns:
\* a hit is logged, or the raw fetch is pending afterwards.
GetCachedDataCalled ==
    /\ pc = "fetch" /\ timestamp = 0 /\ si <= Len(stations)
    /\ \/ timestamp' # 0
       \/ /\ Len(fetch_log') = Len(fetch_log) + 1
          /\ fetch_log'[Len(fetch_log')].time # 0
\* The key of that call and whether it returned None.
CalledKey ==
    get_cache_key(stations[si].id, Date,
                  IF timestamp' # 0 THEN timestamp' ELSE fetch_log'[Len(fetch_log')].time)
ReturnedAbsent == timestamp' # 0

\* C13: a call of get_cached_data ends with a return: None for a key that
\* is not in the index, with the cache as it was; None for an indexed key
\* whose blob file is missing, with the key taken out of the index in memory
\* and in the index file and every other entry of both left as it was.
IndexRepair ==
    [][GetCachedDataCalled =>
          /\ ReturnedAbsent \/ fetch_log'[Len(fetch_log')].how = "hit"
          /\ CalledKey \notin cache_index =>
                /\ ReturnedAbsent
                /\ UNCHANGED <<cache_index, index_file, blobs>>
          /\ (CalledKey \in cache_index /\ blobs[CalledKey] = << >>) =>
                /\ ReturnedAbsent
                /\ cache_index' = cache_index \ {CalledKey}
                /\ index_file' = SaveCacheIndex(cache_index')
                /\ LoadCacheIndex(index_file') = LoadCacheIndex(index_file) \ {CalledKey}
                /\ \A k \in Keys \ {CalledKey} :
                      /\ k \in cache_index' <=> k \in cache_index
                      /\ k \in LoadCacheIndex(index_file') <=> k \in LoadCacheIndex(index_file)
                /\ UNCHANGED blobs
      ]_vars

\* get_cached_data has just taken the key of station 1 out of the index,
\* which still holds, in memory and in the file, the key of a scan stored
\* before; the raw fetch is pending.
IndexRepairWitness ==
    /\ pc = "fetch" /\ timestamp # 0
    /\ get_cache_key(stations[si].id, Date, timestamp) \in repaired
    /\ get_cache_key(stations[si].id, Date, timestamp) \notin cache_index
    /\ \E w \in writes : w.key \in cache_index /\ w.key \in LoadCacheIndex(index_file)
    /\ index_file = SaveCacheIndex(cache_index)

\* The directory entries within max_distance of the center, by index.
Within(center, max_distance) ==
    {i \in DOMAIN Directory :
        calculate_haversine_distance(center, Directory[i].lat) <= max_distance}
\* result lists the entries of Within, each once, in directory order, each
\* with its id, its position and its distance from the center.
ListsWithin(result, center, max_distance) ==
    /\ Len(result) = Cardinality(Within(center, max_distance))
    /\ \A k \in DOMAIN result :
          \E i \in Within(center, max_distance) :
              /\ result[k].id = Directory[i].id
              /\ result[k].lat = Directory[i].lat
              /\ result[k].distance = calculate_haversine_distance(center, Directory[i].lat)
              /\ \A l \in DOMAIN result :
                    k < l => \E j \in Within(center, max_distance) :
                                 i < j /\ result[l].id = Directory[j].id
\* Values of max_distance: that of the handler, the distance of two degrees
\* of latitude (a station on the boundary) and one metre less.
MaxDistances ==
    {max_distance_km * 1000, calculate_haversine_distance(39, 41),
     calculate_haversine_distance(39, 41) - 1}

\* C15: get_radars_within_distance returns the directory's stations at a
\* distance of at most max_distance_km from the center, the boundary
\* included, each once, in directory order, with id, position and distance;
\* this is the station list of a request whose directory call succeeded.
SelectorFilter ==
    /\ directory = "ok" => ListsWithin(stations, center_lat, max_distance_km * 1000)
    /\ \A center \in Centers \cup {center_lat}, max_distance \in MaxDistances :
          ListsWithin(get_radars_within_distance(center, max_distance), center, max_distance)

\* A request centered on station 1 selected stations 1 and 2 and left out
\* station 3; with max_distance at the distance of station 2 the function
\* keeps station 2, with a metre less it drops it.
SelectorFilterWitness ==
    /\ directory = "ok" /\ center_lat = 39
    /\ Len(stations) = 2
    /\ stations[1].id = 1 /\ stations[1].distance = 0
    /\ stations[2].id = 2 /\ stations[2].distance = calculate_haversine_distance(39, 41)
    /\ Len(get_radars_within_distance(39, calculate_haversine_distance(39, 41))) = 2
    /\ Len(get_radars_within_distance(39, calculate_haversine_distance(39, 41) - 1)) = 1

\* C18: in a successful response the timestamp of every station is the time
\* of the dataset key under which that station's scan was looked up in the
\* cache or stored into it by the fetch of this request.
ResponseTimestampIsScanTime ==
    (pc = "done" /\ response # << >> /\ response[1].status = "success") =>
        /\ Len(response[1].stations) = Len(SucceededFetches)
        /\ \A i \in DOMAIN response[1].stations :
              /\ response[1].stations[i].id = SucceededFetches[i].id
              /\ response[1].stations[i].timestamp = FormatTime(SucceededFetches[i].time)

\* The offset of a station from the center along the meridian, in metres.
StationOffset(station, center) ==
    IF station.lat < center THEN 0 - calculate_haversine_distance(center, station.lat)
    ELSE calculate_haversine_distance(center, station.lat)
InReliableRange(c, station, center) ==
    Abs(Y(c) - StationOffset(station, center)) <= max_reliable_range

\* C16: whichever of the request's stations raise in the interpolation
\* block, each grid handed to the merge has no data beyond
\* max_reliable_range of its own station, whatever the scan holds there, and
\* every cell of the merged grid that has data lies within that range of a
\* station whose grid was merged.
RangeMaskPerStation ==
    (pc \in {"fetch", "done"} /\ Len(radar_data_list) = Len(station_info)) =>
        \A faults \in [DOMAIN radar_data_list -> {"ok", "raise"}] :
            LET inputs == [i \in DOMAIN radar_data_list |->
                              StationInput(radar_data_list[i], station_info[i],
                                           center_lat, faults[i])]
                merged == MergeLoop(masked_all, inputs)
            IN  /\ \A i \in DOMAIN inputs, c \in Cells :
                      ~inputs[i].grid_z[c].mask =>
                          InReliableRange(c, station_info[i], center_lat)
                /\ \A c \in Cells :
                      ~merged[c].mask =>
                          \E i \in DOMAIN inputs :
                              /\ inputs[i].kind = "grid"
                              /\ InReliableRange(c, station_info[i], center_lat)

\* Two scans went to the merge.  The scan of station 2 has a value in a cell
\* beyond 80000 m of station 2, which its grid does not have; the merged grid
\* has data in a cell near station 1 and in a cell near station 2.
RangeMaskWitness ==
    /\ pc = "done" /\ Len(radar_data_list) = 2 /\ merge_trace # << >>
    /\ merge_trace[1].kinds = <<"grid", "grid">>
    /\ LET inputs == [i \in 1..2 |->
                         StationInput(radar_data_list[i], station_info[i], center_lat, "ok")]
           merged == MergeLoop(masked_all, inputs)
       IN  /\ \E c \in Cells :
                 /\ ~radar_data_list[2].ref[c].mask
                 /\ ~InReliableRange(c, station_info[2], center_lat)
                 /\ inputs[2].grid_z[c].mask
                 /\ merged[c].mask
           /\ \E c, d \in Cells :
                 /\ ~merged[c].mask /\ InReliableRange(c, station_info[1], center_lat)
                 /\ ~merged[d].mask /\ InReliableRange(d, station_info[2], center_lat)
                 /\ ~InReliableRange(d, station_info[1], center_lat)

\* The index file does not load and nothing was saved over it yet: the
\* cache is empty, every get_cached_data returns None.
EmptyUntilPut ==
    index_file.kind # "json" =>
        /\ cache_index = {}
        /\ \A k \in Keys : get_cached_data(cache_index, index_file, blobs, k).ret = << >>
\* A scan given to cache_radar_data is in the index, in the index file and
\* found by get_cached_data.
PutHeals ==
    \A w \in writes :
        /\ w.key \in cache_index
        /\ index_file.kind = "json" /\ w.key \in index_file.keys
        /\ get_cached_data(cache_index, index_file, blobs, w.key).ret # << >>
\* What holds of index files that are missing or not JSON.
HealsWhenLoaded == EmptyUntilPut /\ PutHeals

\* C14: with an index file that is missing or does not load, the cache is
\* constructed, it is empty until a scan is put, and a scan that was put is
\* indexed, in the index file and found by the next get.
IndexSelfHeals ==
    /\ pc # "import_failed"
    /\ EmptyUntilPut
    /\ PutHeals

(***************************************************************************)
(* Properties of the cache under concurrent calls (SpecCache).             *)
(***************************************************************************)
NoCacheCallRaises == \A t \in Threads : tpc[t] # "raised"
GetReturnsStored ==
    \A t \in Threads :
        tret[t].ret # << >> =>
            \E w \in writes :
                w.key = tret[t].key /\ tret[t].ret = <<NpLoad(Savez(w.payload))>>
IndexEntryKept == \A k \in put_done : k \in cache_index

\* C7: with two threads in get_cached_data and cache_radar_data, no call
\* raises, a get returns nothing or what a put stored under the key, and the
\* index keeps the entry of every key whose put has returned.
ConcurrentCacheSafe ==
    /\ NoCacheCallRaises
    /\ GetReturnsStored
    /\ IndexEntryKept

(***************************************************************************)
(* Properties of the grid-to-points loop (SpecPoints).                     *)
(***************************************************************************)
\* The cell has data, at least 5.0 dBZ, at most max_reliable_range from the center.
Qualifies(cell) == ~cell.mask /\ cell.data >= 50 /\ cell.dist <= max_reliable_range

\* C11: the points appended so far are one for each cell passed that has
\* data, a value of at least 5.0 dBZ and a distance from the center of at
\* most 80000 m, in cell order, and none for another cell.
PointFilter ==
    LET passed == 1..(pt_i - 1)
    IN  /\ Len(points_data) = Cardinality({i \in passed : Qualifies(pt_cells[i])})
        /\ \A k \in DOMAIN points_data :
              /\ points_data[k].cell \in passed
              /\ Qualifies(pt_cells[points_data[k].cell])
        /\ \A k, l \in DOMAIN points_data :
              k < l => points_data[k].cell < points_data[l].cell

\* The loop is through: the cell of 5.0 dBZ at 80000 m gave the only point;
\* the cells of 4.9 dBZ at 80000 m and of 5.0 dBZ at 80001 m gave none.
PointFilterWitness ==
    /\ pt_i = Len(pt_cells) + 1
    /\ \E a, b, c \in DOMAIN pt_cells :
          /\ pt_cells[a] = [mask |-> FALSE, data |-> 50, dist |-> max_reliable_range]
          /\ pt_cells[b] = [mask |-> FALSE, data |-> 49, dist |-> max_reliable_range]
          /\ pt_cells[c] = [mask |-> FALSE, data |-> 50, dist |-> max_reliable_range + 1]
          /\ Len(points_data) = 1
          /\ points_data[1].cell = a

\* C12: every point's value is (dbz + 30) * 0.5 of its cell's value, cut to
\* [0, 50]; the formula gives 0 for -30, 15 for 0 and 50 for 70 dBZ.
PointValue ==
    /\ \A k \in DOMAIN points_data :
          LET dbz10 == pt_cells[points_data[k].cell].data
              half == (dbz10 + 300) * 5
          IN  /\ points_data[k].value100 =
                     IF half < 0 THEN 0 ELSE IF half > 5000 THEN 5000 ELSE half
              /\ points_data[k].value100 >= 0
              /\ points_data[k].value100 <= 5000
    /\ normalize(0 - 300) = 0
    /\ normalize(0) = 1500
    /\ normalize(700) = 5000

\* A point of 5.0 dBZ has the value 17.5 and a point of 71.0 dBZ the value 50.
PointValueWitness ==
    /\ pt_i = Len(pt_cells) + 1
    /\ \E k, l \in DOMAIN points_data :
          /\ pt_cells[points_data[k].cell].data = 50 /\ points_data[k].value100 = 1750
          /\ pt_cells[points_data[l].cell].data = 710 /\ points_data[l].value100 = 5000

====
